---- MODULE Spec2Model ----
(***************************************************************************)
(* A model of the obsidian-list-modified plugin (src/src/main.ts): the     *)
(* tracked-file set kept in the settings, the interval onload registers,   *)
(* the three vault notifications (metadata changed, delete, rename), the   *)
(* render of the tracked set into                                          *)
(* the managed region of the daily note, and the host calls the handlers   *)
(* await (saveData, createDailyNote, vault.read) or leave in flight        *)
(* (vault.modify, vault.copy, an unawaited saveSettings).                  *)
(*                                                                         *)
(* JavaScript runs each handler from one await to the next without         *)
(* interruption, so every action below is one such synchronous segment.    *)
(* Each of the four handlers is wrapped in its own serialize(...) of       *)
(* monkey-around, which chains the invocations of that one wrapper on a    *)
(* promise private to the wrapper.                                         *)
(*                                                                         *)
(* Text settings are sequences of one-character strings, so that split,    *)
(* replace, includes and startsWith are computed as the code computes      *)
(* them.  A line of the daily note is a sequence of tokens.                *)
(***************************************************************************)
EXTENDS Integers, Sequences, FiniteSets, TLC

\* ------------------------------------------------------------------ bounds

\* Vault notifications (changed, delete, rename) and timer ticks delivered
\* per behaviour.
MaxEvents == 3

\* ------------------------------------------------------- strings and arrays

WhiteSpace == {" "}

RECURSIVE StripWhiteSpace(_)
\* s.replace(/\s/g, "")
StripWhiteSpace(s) ==
    IF s = <<>> THEN <<>>
    ELSE IF Head(s) \in WhiteSpace THEN StripWhiteSpace(Tail(s))
    ELSE <<Head(s)>> \o StripWhiteSpace(Tail(s))

RECURSIVE SplitFrom(_, _)
\* s.split(","), with cur the piece collected so far: "" splits into [""]
SplitFrom(s, cur) ==
    IF s = <<>> THEN <<cur>>
    ELSE IF Head(s) = "," THEN <<cur>> \o SplitFrom(Tail(s), <<>>)
    ELSE SplitFrom(Tail(s), Append(cur, Head(s)))

Split(s) == SplitFrom(s, <<>>)

LowerChar(c) ==
    CASE c = "A" -> "a" [] c = "B" -> "b" [] c = "C" -> "c" [] c = "F" -> "f"
      [] c = "G" -> "g" [] c = "Z" -> "z" [] OTHER -> c

\* s.toLowerCase()
ToLowerCase(s) == [i \in 1..Len(s) |-> LowerChar(s[i])]

\* s.startsWith(p)
StartsWith(s, p) == Len(p) <= Len(s) /\ SubSeq(s, 1, Len(p)) = p

\* s.includes(p): p occurs in s as a substring; the empty p occurs in every s
Includes(s, p) ==
    \E i \in 1..(Len(s) - Len(p) + 1) : SubSeq(s, i, i + Len(p) - 1) = p

\* the span (first, last) of the leftmost match of /\s*, | \s*,/ in s, or <<>>
RECURSIVE SkipWhiteSpace(_, _)
SkipWhiteSpace(s, i) ==
    IF i <= Len(s) /\ s[i] \in WhiteSpace THEN SkipWhiteSpace(s, i + 1) ELSE i

CommaSpaceAt(s, i) ==
    LET j == SkipWhiteSpace(s, i)
    IN  IF j + 1 <= Len(s) /\ s[j] = "," /\ s[j + 1] = " " THEN <<i, j + 1>>
        ELSE IF s[i] = " " /\ j <= Len(s) /\ s[j] = "," THEN <<i, j>>
        ELSE <<>>

\* s.replace(/\s*, | \s*,/, ","): only the first match is replaced
ReplaceFirstCommaSpace(s) ==
    LET hits == {i \in 1..Len(s) : CommaSpaceAt(s, i) # <<>>}
    IN  IF hits = {} THEN s
        ELSE LET i == CHOOSE k \in hits : \A h \in hits : k <= h
                 m == CommaSpaceAt(s, i)
             IN  SubSeq(s, 1, i - 1) \o <<",">> \o SubSeq(s, m[2] + 1, Len(s))

\* item.replace(/^\/|\/$/g, ""): one leading and one trailing slash are dropped
TrimSlashes(s) ==
    LET a == IF s # <<>> /\ Head(s) = "/" THEN Tail(s) ELSE s
    IN  IF a # <<>> /\ a[Len(a)] = "/" THEN SubSeq(a, 1, Len(a) - 1) ELSE a

\* array.includes(x)
ArrayIncludes(arr, x) == \E i \in 1..Len(arr) : arr[i] = x

\* Obsidian's Array.prototype.remove(x): every element equal to x is spliced out
ArrayRemove(arr, x) == SelectSeq(arr, LAMBDA y : y # x)

\* array.push(x)
ArrayPush(arr, x) == Append(arr, x)


\* ------------------------------------------------------------- the vault

\* The TFile objects of the vault.  A TFile keeps its identity over a rename
\* (its path is updated in place) and keeps its last path once deleted.
FileIds == {1, 2}

\* The reference the "changed" notification carries for today's daily note.
DailyFile == 0

Paths == {"a.md", "F/b.md", "c.md"}

\* file.parent.path; the root folder's path is "/"
ParentPath(path) == IF path = "F/b.md" THEN <<"F">> ELSE <<"/">>

\* file.basename, as characters and as one token of a rendered line
BasenameChars(path) ==
    CASE path = "a.md" -> <<"a">> [] path = "F/b.md" -> <<"b">> [] OTHER -> <<"c">>

Basename(path) ==
    CASE path = "a.md" -> "a" [] path = "F/b.md" -> "b" [] OTHER -> "c"

\* fileManager.generateMarkdownLink(file, <daily note path>)
MarkdownLink(path) ==
    CASE path = "a.md" -> "[[a]]" [] path = "F/b.md" -> "[[F/b]]" [] OTHER -> "[[c]]"

\* the tag lists a metadata cache can carry: getAllTags(cache)
TagLists == {<<>>, << <<"#", "x">> >>}

\* ------------------------------------------------------------- settings

LinkFormat == <<"- ", "[[link]]">>
NameFormat == <<"- ", "[[name]]", " ", "[[ctime]]">>

\* The user-set part of the settings: the settings tab is the only writer, and
\* no handler of main.ts assigns these fields.
ConfigTags ==
    [heading |-> "Modified", outputFormat |-> LinkFormat, tags |-> <<"#", "x">>,
     excludedFolders |-> <<>>, ignoredNameContains |-> <<"Z", "z">>,
     automaticallyCreateDailyNote |-> FALSE,
     writeInterval |-> <<"5">>]

ConfigFolders ==
    [heading |-> "Modified", outputFormat |-> NameFormat, tags |-> <<"#", "x">>,
     excludedFolders |-> <<"/", "F", "/", " ", ",", "G">>,
     ignoredNameContains |-> <<"C">>,
     automaticallyCreateDailyNote |-> TRUE,
     writeInterval |-> <<"0">>]

\* no filter configured
ConfigDefault ==
    [heading |-> "Modified", outputFormat |-> LinkFormat, tags |-> <<>>,
     excludedFolders |-> <<>>, ignoredNameContains |-> <<>>,
     automaticallyCreateDailyNote |-> FALSE,
     writeInterval |-> <<"3", "0">>]

ConfigNoHeading ==
    [heading |-> "", outputFormat |-> LinkFormat, tags |-> <<>>,
     excludedFolders |-> <<>>, ignoredNameContains |-> <<"Z", "z">>,
     automaticallyCreateDailyNote |-> FALSE,
     writeInterval |-> <<"x">>]

Configs == {ConfigTags, ConfigFolders, ConfigDefault, ConfigNoHeading}

\* moment().format("YYYY-MM-DD") as a day number; the date does not change
\* within a behaviour, and a rollover is due when the settings were last
\* written on an earlier day.
Today == 1
Yesterday == 0


\* ------------------------------------------------------------- onload

\* DEFAULT_SETTINGS.writeInterval: the built-in default interval, a
\* positive-integer string
DefaultWriteInterval == <<"3", "0">>

IsDigit(c) == c \in {"0", "1", "2", "3", "4", "5", "6", "7", "8", "9"}

DigitValue(c) ==
    CASE c = "0" -> 0 [] c = "1" -> 1 [] c = "2" -> 2 [] c = "3" -> 3
      [] c = "4" -> 4 [] c = "5" -> 5 [] c = "6" -> 6 [] c = "7" -> 7
      [] c = "8" -> 8 [] OTHER -> 9

RECURSIVE ParseDigits(_, _)
ParseDigits(s, acc) ==
    IF s = <<>> \/ ~IsDigit(Head(s)) THEN acc
    ELSE ParseDigits(Tail(s), acc * 10 + DigitValue(Head(s)))

\* parseInt(s, 10): leading white space, a sign, then the digits up to the
\* first other character; <<n>> for the number n, <<>> for NaN
parseInt(s) ==
    LET t == SubSeq(s, SkipWhiteSpace(s, 1), Len(s))
        signed == t # <<>> /\ Head(t) \in {"-", "+"}
        body == IF signed THEN Tail(t) ELSE t
    IN  IF body = <<>> \/ ~IsDigit(Head(body)) THEN <<>>
        ELSE IF signed /\ Head(t) = "-" THEN <<0 - ParseDigits(body, 0)>>
        ELSE <<ParseDigits(body, 0)>>

\* schema.parse(a) does not throw: z.number() rejects NaN, .positive()
\* rejects what is not above 0
schemaAccepts(a) == parseInt(a) # <<>> /\ parseInt(a)[1] > 0

\* lines 37-54: the interval onload registers, in seconds, and whether it
\* displays the "Invalid write interval" notice
onload(writeInterval) ==
    [registered |-> TRUE,
     sec |-> IF schemaAccepts(writeInterval) THEN parseInt(writeInterval)[1]
             ELSE parseInt(DefaultWriteInterval)[1],
     notice |-> ~schemaAccepts(writeInterval)]

\* ---------------------------------------------------------- the filters

\* noteTitleContainsIgnoredText(noteTitle)
noteTitleContainsIgnoredText(config, noteTitle) ==
    LET ignoredText == Split(StripWhiteSpace(config.ignoredNameContains))
    IN  \E i \in 1..Len(ignoredText) :
            Includes(ToLowerCase(noteTitle), ToLowerCase(ignoredText[i]))

\* cacheContainsIgnoredTag(cache), with currentFileTags = getAllTags(cache)
cacheContainsIgnoredTag(config, currentFileTags) ==
    LET ignoredTags == Split(StripWhiteSpace(config.tags))
    IN  \E i \in 1..Len(ignoredTags) : ArrayIncludes(currentFileTags, ignoredTags[i])

\* lines 126-129: excludedFolders, split and trimmed
splitExcludedFolders(excludedFolders) ==
    LET items == Split(ReplaceFirstCommaSpace(excludedFolders))
    IN  [i \in 1..Len(items) |-> TrimSlashes(items[i])]

\* the excludedFolderPaths of pathIsExcluded: the same array on every call,
\* as no handler writes excludedFolders
excludedFolderPathsOf == [config \in Configs |-> splitExcludedFolders(config.excludedFolders)]

excludedFolderPaths(config) == excludedFolderPathsOf[config]

\* pathIsExcluded(path) when getAbstractFileByPath(path) finds the file
pathIsExcluded(config, path) ==
    IF config.excludedFolders = <<>> THEN FALSE
    ELSE \E i \in 1..Len(excludedFolderPaths(config)) :
            StartsWith(ParentPath(path), excludedFolderPaths(config)[i])

\* ------------------------------------------------------ the daily note

HeadingLine(text) == <<"#", text>>

IsHeading(line) == line # <<>> /\ line[1] = "#"

RECURSIVE HeadingsFrom(_, _)
\* the metadata cache's headings of a text: the heading text and its
\* (0-based) line, position.start.line = position.end.line
HeadingsFrom(content, k) ==
    IF k > Len(content) THEN <<>>
    ELSE IF IsHeading(content[k])
         THEN <<[heading |-> content[k][2], line |-> k - 1]>>
              \o HeadingsFrom(content, k + 1)
         ELSE HeadingsFrom(content, k + 1)

HeadingsOf(content) == HeadingsFrom(content, 1)

\* what createDailyNote writes: the user's daily-note template
NoteTemplate == <<HeadingLine("Modified"), <<>>, HeadingLine("Next")>>


\* ------------------------------------------------------------ the state

VARIABLES
    cfg,        \* the user-set settings (one of Configs)
    interval,   \* the window.setInterval that onload has registered
    settings,   \* this.settings: trackedFiles, lastTrackedDate, hasBeenBackedUp
    saved,      \* the settings record the host has persisted (saveData)
    files,      \* the TFile objects: path and whether the file still exists
    note,       \* today's daily note: whether it exists, and its lines
    cache,      \* the metadata cache's entry of the daily note
    qCache,     \* invocations waiting on onCacheChange's serialize chain
    qDelete,    \* ... on onVaultDelete's
    qRename,    \* ... on onVaultRename's
    qUpdate,    \* ... on updateTrackedFiles's (the caller that awaits each)
    pc,         \* where the running invocation of each handler is suspended
    upd,        \* the running updateTrackedFiles: its caller and its headings
    saves,      \* saveData calls in flight: the record written and who awaits
    writes,     \* vault.modify calls in flight on the daily note
    backups,    \* vault.copy calls made
    nev         \* notifications and timer ticks delivered so far

vars == <<cfg, interval, settings, saved, files, note, cache, qCache, qDelete, qRename,
          qUpdate, pc, upd, saves, writes, backups, nev>>

Handlers == {"onCacheChange", "onVaultDelete", "onVaultRename", "updateTrackedFiles"}

NoNote == [exists |-> FALSE, content |-> <<>>]

NoteWith(text) == [exists |-> TRUE, content |-> text]

Text1 == <<HeadingLine("Modified"), <<"old line">>, HeadingLine("Next")>>
Text2 == <<HeadingLine("Modified"), HeadingLine("Next"), <<"tail">> >>
Text3 == << <<"intro">>, HeadingLine("Modified"), <<"x">>, <<"y">>, <<"z">>,
            HeadingLine("Next")>>
Text4 == << <<"intro">>, HeadingLine("Modified"), <<"old line">> >>
Text5 == <<HeadingLine("Other"), <<"old line">> >>
Text6 == << <<"no heading">> >>

\* What the plugin can find when it loads: the settings file of an earlier
\* session (tracked paths are distinct, as that session's first load left
\* them) and today's daily note, if there is one.
Loads(configs, tracked, dates, backedUp, notes) ==
    [cfg : configs, trackedFiles : tracked, lastTrackedDate : dates,
     hasBeenBackedUp : backedUp, note : notes]

Scenarios ==
    Loads(Configs, {<<>>, <<"a.md">>, <<"F/b.md", "a.md">>}, {Today}, {TRUE},
          {NoteWith(Text1)})
    \cup Loads({ConfigTags}, {<<>>, <<"a.md">>}, {Today}, {TRUE},
               {NoNote, NoteWith(Text2), NoteWith(Text3), NoteWith(Text4),
                NoteWith(Text5), NoteWith(Text6)})
    \cup Loads({ConfigTags, ConfigFolders}, {<<"F/b.md", "a.md">>}, {Yesterday},
               BOOLEAN, {NoteWith(Text1)})
    \cup Loads({ConfigFolders}, {<<>>, <<"a.md">>}, {Today}, {FALSE},
               {NoNote, NoteWith(Text1)})
    \cup Loads({ConfigTags}, {<<"F/b.md", "a.md">>}, {Yesterday}, {TRUE},
               {NoteWith(Text5)})

Init ==
    /\ \E load \in Scenarios :
          /\ cfg = load.cfg
          /\ settings = [trackedFiles |-> load.trackedFiles,
                         lastTrackedDate |-> load.lastTrackedDate,
                         hasBeenBackedUp |-> load.hasBeenBackedUp]
          /\ note = load.note
    /\ interval = onload(cfg.writeInterval)
    /\ saved = settings
    /\ files = [f \in FileIds |-> [path |-> IF f = 1 THEN "a.md" ELSE "F/b.md",
                                   alive |-> TRUE]]
    /\ cache = [ready |-> note.exists, headings |-> HeadingsOf(note.content),
                dirty |-> FALSE]
    /\ qCache = <<>> /\ qDelete = <<>> /\ qRename = <<>> /\ qUpdate = <<>>
    /\ pc = [h \in Handlers |-> "idle"]
    /\ upd = [caller |-> "none", headings |-> <<>>]
    /\ saves = <<>> /\ writes = <<>> /\ backups = 0 /\ nev = 0

\* app.vault.getAbstractFileByPath(path) finds a file
FileExists(path) == \E f \in FileIds : files[f].alive /\ files[f].path = path

\* A serialize wrapper whose chain has settled and that has an invocation
\* waiting starts it in a microtask, before the host delivers anything else.
Pending ==
    \/ pc["onCacheChange"] = "idle" /\ qCache # <<>>
    \/ pc["onVaultDelete"] = "idle" /\ qDelete # <<>>
    \/ pc["onVaultRename"] = "idle" /\ qRename # <<>>
    \/ pc["updateTrackedFiles"] = "idle" /\ qUpdate # <<>>

\* ---------------------------------------------------- the notifications

\* metadataCache.on("changed", this.onCacheChange): the wrapper is called
MetadataChanged(f, tags) ==
    /\ ~Pending /\ nev < MaxEvents
    /\ files[f].alive
    /\ qCache' = Append(qCache, [file |-> f, tags |-> tags])
    /\ nev' = nev + 1
    /\ UNCHANGED <<cfg, interval, settings, saved, files, note, cache, qDelete, qRename,
                   qUpdate, pc, upd, saves, writes, backups>>

\* the same notification for the daily note, not caused by the plugin (the
\* user has saved it); an edit of its text by the user is outside the model
DailyNoteChanged ==
    /\ ~Pending /\ nev < MaxEvents
    /\ note.exists
    /\ qCache' = Append(qCache, [file |-> DailyFile, tags |-> <<>>])
    /\ nev' = nev + 1
    /\ UNCHANGED <<cfg, interval, settings, saved, files, note, cache, qDelete,
                   qRename, qUpdate, pc, upd, saves, writes, backups>>

\* vault.on("delete", this.onVaultDelete)
VaultDelete(f) ==
    /\ ~Pending /\ nev < MaxEvents
    /\ files[f].alive
    /\ files' = [files EXCEPT ![f].alive = FALSE]
    /\ qDelete' = Append(qDelete, f)
    /\ nev' = nev + 1
    /\ UNCHANGED <<cfg, interval, settings, saved, note, cache, qCache, qRename, qUpdate,
                   pc, upd, saves, writes, backups>>

\* vault.on("rename", this.onVaultRename): the TFile already has its new path
VaultRename(f, newPath) ==
    /\ ~Pending /\ nev < MaxEvents
    /\ files[f].alive /\ ~FileExists(newPath)
    /\ files' = [files EXCEPT ![f].path = newPath]
    /\ qRename' = Append(qRename, [file |-> f, oldPath |-> files[f].path])
    /\ nev' = nev + 1
    /\ UNCHANGED <<cfg, interval, settings, saved, note, cache, qCache, qDelete, qUpdate,
                   pc, upd, saves, writes, backups>>


\* lines 50-52: the callback of the registered interval runs; it writes
\* "test" to the console
TimerTick ==
    /\ ~Pending /\ nev < MaxEvents
    /\ interval.registered
    /\ nev' = nev + 1
    /\ UNCHANGED <<cfg, interval, settings, saved, files, note, cache, qCache,
                   qDelete, qRename, qUpdate, pc, upd, saves, writes, backups>>


\* ------------------------------------------------------- onCacheChange

\* lines 71-74: the settings after the rollover test
rollover(sett) ==
    IF sett.lastTrackedDate # Today
    THEN [sett EXCEPT !.trackedFiles = <<>>, !.lastTrackedDate = Today]
    ELSE sett

\* pathIsExcluded(path) throws a TypeError: excluded folders are configured
\* and getAbstractFileByPath(path) is null
pathIsExcludedThrows(path) == cfg.excludedFolders # <<>> /\ ~FileExists(path)

\* pushCondition without its first test: a tracked file is pushed again
pushConditionNoIncludes(trackedFiles, path, tags) ==
    /\ ~cacheContainsIgnoredTag(cfg, tags)
    /\ ~pathIsExcluded(cfg, path)
    /\ ~noteTitleContainsIgnoredText(cfg, BasenameChars(path))

\* lines 83-88, the condition of the push, short-circuited as && is
pushCondition(trackedFiles, path, tags) ==
    /\ ~ArrayIncludes(trackedFiles, path)
    /\ ~cacheContainsIgnoredTag(cfg, tags)
    /\ ~pathIsExcluded(cfg, path)
    /\ ~noteTitleContainsIgnoredText(cfg, BasenameChars(path))

\* lines 92-97, the condition of the remove
removeCondition(trackedFiles, path, tags) ==
    \/ ArrayIncludes(trackedFiles, path) /\ cacheContainsIgnoredTag(cfg, tags)
    \/ pathIsExcluded(cfg, path)
    \/ noteTitleContainsIgnoredText(cfg, BasenameChars(path))

\* lines 83-99 on the array the local trackedFiles refers to
membershipUpdate(trackedFiles, path, tags) ==
    LET pushed == IF pushCondition(trackedFiles, path, tags)
                  THEN ArrayPush(trackedFiles, path) ELSE trackedFiles
    IN  IF removeCondition(pushed, path, tags)
        THEN ArrayRemove(pushed, path) ELSE pushed

\* lines 83-97 reach pathIsExcluded on a path no file has: the first
\* condition when its two tests before it pass, the second when its
\* first disjunct fails
membershipThrows(trackedFiles, path, tags) ==
    /\ pathIsExcludedThrows(path)
    /\ \/ ~ArrayIncludes(trackedFiles, path) /\ ~cacheContainsIgnoredTag(cfg, tags)
       \/ ~(ArrayIncludes(trackedFiles, path) /\ cacheContainsIgnoredTag(cfg, tags))

\* The array the local const trackedFiles (line 68) refers to keeps being the
\* one read before the rollover; line 72 assigns a new array to the settings.
\* So the update of lines 83-99 reaches this.settings only without a rollover.
settingsAfterChange(sett, path, tags) ==
    IF sett.lastTrackedDate # Today
    THEN rollover(sett)
    ELSE [sett EXCEPT !.trackedFiles = membershipUpdate(sett.trackedFiles, path, tags)]

\* onCacheChange without the return of lines 78-80: a change of the daily
\* note goes on to the render
onCacheChangeRendersDaily ==
    /\ pc["onCacheChange"] = "idle" /\ qCache # <<>>
    /\ LET file == Head(qCache).file
           tags == Head(qCache).tags
       IN  /\ qCache' = Tail(qCache)
           /\ IF file = DailyFile /\ note.exists
              THEN /\ settings' = rollover(settings)
                   /\ qUpdate' = Append(qUpdate, "onCacheChange")
                   /\ pc' = [pc EXCEPT !["onCacheChange"] = "await update"]
              ELSE IF membershipThrows(settings.trackedFiles, files[file].path, tags)
              THEN /\ settings' = rollover(settings)
                   /\ UNCHANGED <<pc, qUpdate>>
              ELSE /\ settings' = settingsAfterChange(settings, files[file].path, tags)
                   /\ qUpdate' = Append(qUpdate, "onCacheChange")
                   /\ pc' = [pc EXCEPT !["onCacheChange"] = "await update"]
    /\ UNCHANGED <<cfg, interval, saved, files, note, cache, qDelete, qRename, upd, saves,
                   writes, backups, nev>>

\* onCacheChange, lines 67-101: from the start to `await updateTrackedFiles()`
\* (the call puts an invocation on updateTrackedFiles's chain), to the return
\* of line 79, or to the TypeError of pathIsExcluded.
onCacheChange ==
    /\ pc["onCacheChange"] = "idle" /\ qCache # <<>>
    /\ LET file == Head(qCache).file
           tags == Head(qCache).tags
       IN  /\ qCache' = Tail(qCache)
           /\ IF file = DailyFile /\ note.exists
              THEN /\ settings' = rollover(settings)
                   /\ UNCHANGED <<pc, qUpdate>>
              ELSE IF membershipThrows(settings.trackedFiles, files[file].path, tags)
              THEN /\ settings' = rollover(settings)
                   /\ UNCHANGED <<pc, qUpdate>>
              ELSE /\ settings' = settingsAfterChange(settings, files[file].path, tags)
                   /\ qUpdate' = Append(qUpdate, "onCacheChange")
                   /\ pc' = [pc EXCEPT !["onCacheChange"] = "await update"]
    /\ UNCHANGED <<cfg, interval, saved, files, note, cache, qDelete, qRename, upd, saves,
                   writes, backups, nev>>

\* -------------------------------------------- onVaultDelete, onVaultRename

\* onVaultDelete without the test of line 141: every delete removes and renders
onVaultDeleteAlways ==
    /\ pc["onVaultDelete"] = "idle" /\ qDelete # <<>>
    /\ qDelete' = Tail(qDelete)
    /\ settings' = [settings EXCEPT
                       !.trackedFiles = ArrayRemove(@, files[Head(qDelete)].path)]
    /\ qUpdate' = Append(qUpdate, "onVaultDelete")
    /\ pc' = [pc EXCEPT !["onVaultDelete"] = "await update"]
    /\ UNCHANGED <<cfg, interval, saved, files, note, cache, qCache, qRename, upd, saves,
                   writes, backups, nev>>

\* onVaultDelete, lines 139-146: to `await updateTrackedFiles()` or to the end
onVaultDelete ==
    /\ pc["onVaultDelete"] = "idle" /\ qDelete # <<>>
    /\ LET path == files[Head(qDelete)].path
       IN  /\ qDelete' = Tail(qDelete)
           /\ IF ArrayIncludes(settings.trackedFiles, path)
              THEN /\ settings' = [settings EXCEPT
                                      !.trackedFiles = ArrayRemove(@, path)]
                   /\ qUpdate' = Append(qUpdate, "onVaultDelete")
                   /\ pc' = [pc EXCEPT !["onVaultDelete"] = "await update"]
              ELSE UNCHANGED <<settings, qUpdate, pc>>
    /\ UNCHANGED <<cfg, interval, saved, files, note, cache, qCache, qRename, upd, saves,
                   writes, backups, nev>>

\* lines 152-153
renameTracked(trackedFiles, oldPath, newPath) ==
    ArrayPush(ArrayRemove(trackedFiles, oldPath), newPath)

\* onVaultRename, lines 149-155: to `await this.saveSettings()` or to the end
onVaultRename ==
    /\ pc["onVaultRename"] = "idle" /\ qRename # <<>>
    /\ LET file == Head(qRename).file
           oldPath == Head(qRename).oldPath
       IN  /\ qRename' = Tail(qRename)
           /\ IF ArrayIncludes(settings.trackedFiles, oldPath)
              THEN /\ settings' = [settings EXCEPT !.trackedFiles =
                                      renameTracked(@, oldPath, files[file].path)]
                   /\ saves' = Append(saves, [data |-> settings',
                                              waiter |-> "onVaultRename"])
                   /\ pc' = [pc EXCEPT !["onVaultRename"] = "await save"]
              ELSE UNCHANGED <<settings, saves, pc>>
    /\ UNCHANGED <<cfg, interval, saved, files, note, cache, qCache, qDelete, qUpdate, upd,
                   writes, backups, nev>>

\* onVaultRename, lines 155-159: saveData has returned
onVaultRenameSaved ==
    /\ ~Pending
    /\ saves # <<>> /\ Head(saves).waiter = "onVaultRename"
    /\ saved' = Head(saves).data
    /\ saves' = Tail(saves)
    /\ IF ~ArrayIncludes(cfg.outputFormat, "[[link]]")
       THEN /\ qUpdate' = Append(qUpdate, "onVaultRename")
            /\ pc' = [pc EXCEPT !["onVaultRename"] = "await update"]
       ELSE /\ pc' = [pc EXCEPT !["onVaultRename"] = "idle"]
            /\ UNCHANGED qUpdate
    /\ UNCHANGED <<cfg, interval, settings, files, note, cache, qCache, qDelete, qRename,
                   upd, writes, backups, nev>>


\* -------------------------------------------------- updateTrackedFiles

Min(a, b) == IF a < b THEN a ELSE b
Max(a, b) == IF a > b THEN a ELSE b

\* content.splice(start, deleteCount, ...items): start is clamped to the
\* array, deleteCount to what is left of it (a negative count deletes nothing)
splice(content, start, deleteCount, items) ==
    LET from == Min(Max(start, 0), Len(content))
        count == Min(Max(deleteCount, 0), Len(content) - from)
    IN  SubSeq(content, 1, from) \o items \o SubSeq(content, from + count + 1, Len(content))

\* template.replace(token, value): the first occurrence
replace(template, token, value) ==
    IF \E i \in 1..Len(template) : template[i] = token
    THEN LET i == CHOOSE k \in 1..Len(template) :
                      /\ template[k] = token
                      /\ \A j \in 1..(k - 1) : template[j] # token
         IN  [template EXCEPT ![i] = value]
    ELSE template

\* getFormattedOutput(path), lines 256-274, for a path that resolves to a file
getFormattedOutput(path) ==
    replace(replace(replace(replace(cfg.outputFormat,
        "[[link]]", MarkdownLink(path)),
        "[[name]]", Basename(path)),
        "[[tags]]", ""),
        "[[ctime]]", "2020-01-01")

\* getFormattedOutput reads file.basename of getAbstractFileByPath(path)
getFormattedOutputThrows(path) == ~FileExists(path)

\* matchedHeading without the test of line 222: the first heading is taken
matchedHeadingAny(headings) == IF headings # <<>> THEN 1 ELSE 0

\* the index (from 1) of the first heading whose text is the configured one
\* (the loop of line 221), or 0
matchedHeading(headings) ==
    IF \E i \in 1..Len(headings) : headings[i].heading = cfg.heading
    THEN CHOOSE i \in 1..Len(headings) :
            /\ headings[i].heading = cfg.heading
            /\ \A j \in 1..(i - 1) : headings[j].heading # cfg.heading
    ELSE 0

\* lines 223-243: the content after the splice at heading i of headings
spliced(content, headings, i, entries) ==
    LET startPos == headings[i].line + 1
    IN  IF i + 1 <= Len(headings)
        THEN LET endPos == headings[i + 1].line - 1
             IN  splice(content, startPos, endPos - startPos, entries)
        ELSE LET endPos == Len(content)
             IN  splice(content, startPos, endPos - startPos, entries)

\* this.settings.trackedFiles.map((path) => this.getFormattedOutput(path))
renderedEntries(trackedFiles) ==
    [k \in 1..Len(trackedFiles) |-> getFormattedOutput(trackedFiles[k])]

\* settled with the wake-up lost: the chain of updateTrackedFiles goes on, and
\* the handler that awaits the invocation stays suspended
settledCallerWaits(caller) ==
    [h \in Handlers |-> IF h = "updateTrackedFiles" THEN "idle" ELSE pc[h]]

\* The running invocation settles (it returns or it throws): the promise of
\* its serialize chain settles, and the handler that awaited it, which has
\* nothing left to run, settles too.
settled(caller) ==
    [h \in Handlers |->
        IF h = "updateTrackedFiles" \/ h = caller THEN "idle" ELSE pc[h]]

\* updateTrackedFiles, lines 165-166: to `await this.saveSettings()`
updateTrackedFiles ==
    /\ pc["updateTrackedFiles"] = "idle" /\ qUpdate # <<>>
    /\ qUpdate' = Tail(qUpdate)
    /\ upd' = [caller |-> Head(qUpdate), headings |-> <<>>]
    /\ saves' = Append(saves, [data |-> settings, waiter |-> "updateTrackedFiles"])
    /\ pc' = [pc EXCEPT !["updateTrackedFiles"] = "await save"]
    /\ UNCHANGED <<cfg, interval, settings, saved, files, note, cache, qCache, qDelete,
                   qRename, writes, backups, nev>>

\* updateTrackedFilesSaved without the test of hasBeenBackedUp at line 185:
\* every render of an existing daily note copies it
updateTrackedFilesSavedCopies ==
    /\ ~Pending
    /\ saves # <<>> /\ Head(saves).waiter = "updateTrackedFiles"
    /\ saved' = Head(saves).data
    /\ IF note.exists
       THEN /\ backups' = backups + 1
            /\ settings' = [settings EXCEPT !.hasBeenBackedUp = TRUE]
            /\ saves' = Append(Tail(saves), [data |-> settings', waiter |-> "none"])
       ELSE /\ saves' = Tail(saves)
            /\ UNCHANGED <<backups, settings>>
    /\ IF ~note.exists /\ cfg.automaticallyCreateDailyNote
       THEN /\ pc' = [pc EXCEPT !["updateTrackedFiles"] = "await create"]
            /\ UNCHANGED upd
       ELSE IF note.exists /\ cache.ready
       THEN /\ pc' = [pc EXCEPT !["updateTrackedFiles"] = "await read"]
            /\ upd' = [upd EXCEPT !.headings = cache.headings]
       ELSE /\ pc' = settled(upd.caller)
            /\ UNCHANGED upd
    /\ UNCHANGED <<cfg, interval, files, note, cache, qCache, qDelete, qRename, qUpdate,
                   writes, nev>>

\* lines 166-212: saveData has returned; on to `await createDailyNote`, to
\* `await vault.read`, or to the end when there is no daily note.  With a
\* daily note whose metadata the cache does not hold yet, getFileCache is
\* null and line 208 throws.
updateTrackedFilesSaved ==
    /\ ~Pending
    /\ saves # <<>> /\ Head(saves).waiter = "updateTrackedFiles"
    /\ saved' = Head(saves).data
    /\ IF note.exists /\ ~settings.hasBeenBackedUp
       THEN /\ backups' = backups + 1
            /\ settings' = [settings EXCEPT !.hasBeenBackedUp = TRUE]
            /\ saves' = Append(Tail(saves), [data |-> settings', waiter |-> "none"])
       ELSE /\ saves' = Tail(saves)
            /\ UNCHANGED <<backups, settings>>
    /\ IF ~note.exists /\ cfg.automaticallyCreateDailyNote
       THEN /\ pc' = [pc EXCEPT !["updateTrackedFiles"] = "await create"]
            /\ UNCHANGED upd
       ELSE IF note.exists /\ cache.ready
       THEN /\ pc' = [pc EXCEPT !["updateTrackedFiles"] = "await read"]
            /\ upd' = [upd EXCEPT !.headings = cache.headings]
       ELSE /\ pc' = settled(upd.caller)
            /\ UNCHANGED upd
    /\ UNCHANGED <<cfg, interval, files, note, cache, qCache, qDelete, qRename, qUpdate,
                   writes, nev>>

\* lines 202-212: createDailyNote has returned the new note; the metadata
\* cache has indexed it by then, or has not (line 208 throws)
dailyNoteCreated(indexed) ==
    /\ ~Pending
    /\ pc["updateTrackedFiles"] = "await create"
    /\ note' = [exists |-> TRUE, content |-> NoteTemplate]
    /\ IF indexed
       THEN /\ cache' = [ready |-> TRUE, headings |-> HeadingsOf(NoteTemplate),
                         dirty |-> FALSE]
            /\ upd' = [upd EXCEPT !.headings = HeadingsOf(NoteTemplate)]
            /\ pc' = [pc EXCEPT !["updateTrackedFiles"] = "await read"]
       ELSE /\ cache' = [ready |-> FALSE, headings |-> <<>>, dirty |-> TRUE]
            /\ pc' = settled(upd.caller)
            /\ UNCHANGED upd
    /\ UNCHANGED <<cfg, interval, settings, saved, files, qCache, qDelete, qRename, qUpdate,
                   saves, writes, backups, nev>>

\* lines 210-253: vault.read has returned the note's text; the splice and
\* the vault.modify, which is not awaited
dailyNoteRead ==
    /\ ~Pending
    /\ pc["updateTrackedFiles"] = "await read"
    /\ LET content == note.content
           i == matchedHeading(upd.headings)
       IN  IF /\ upd.headings # <<>> /\ cfg.heading # "" /\ i # 0
              /\ \A k \in 1..Len(settings.trackedFiles) :
                    ~getFormattedOutputThrows(settings.trackedFiles[k])
           THEN writes' = Append(writes,
                    spliced(content, upd.headings, i,
                            renderedEntries(settings.trackedFiles)))
           ELSE UNCHANGED writes
    /\ pc' = settled(upd.caller)
    /\ UNCHANGED <<cfg, interval, settings, saved, files, note, cache, qCache, qDelete,
                   qRename, qUpdate, upd, saves, backups, nev>>

\* ------------------------------------------------------------- the host

\* the saveData of line 197, which nobody awaits, has returned
settingsSaved ==
    /\ ~Pending
    /\ saves # <<>> /\ Head(saves).waiter = "none"
    /\ saved' = Head(saves).data
    /\ saves' = Tail(saves)
    /\ UNCHANGED <<cfg, interval, settings, files, note, cache, qCache, qDelete, qRename,
                   qUpdate, pc, upd, writes, backups, nev>>

\* a vault.modify of line 245 reaches the file
noteModified ==
    /\ ~Pending
    /\ writes # <<>>
    /\ note' = [note EXCEPT !.content = Head(writes)]
    /\ writes' = Tail(writes)
    /\ cache' = [cache EXCEPT !.dirty = @ \/ Head(writes) # note.content]
    /\ UNCHANGED <<cfg, interval, settings, saved, files, qCache, qDelete, qRename, qUpdate,
                   pc, upd, saves, backups, nev>>

\* the metadata cache has parsed the daily note again, and notifies "changed"
\* with the daily note as the file
noteIndexed ==
    /\ ~Pending
    /\ note.exists /\ cache.dirty
    /\ cache' = [ready |-> TRUE, headings |-> HeadingsOf(note.content),
                 dirty |-> FALSE]
    /\ qCache' = Append(qCache, [file |-> DailyFile, tags |-> <<>>])
    /\ UNCHANGED <<cfg, interval, settings, saved, files, note, qDelete, qRename, qUpdate,
                   pc, upd, saves, writes, backups, nev>>

Next ==
    \/ \E f \in FileIds, tags \in TagLists : MetadataChanged(f, tags)
    \/ DailyNoteChanged
    \/ \E f \in FileIds : VaultDelete(f)
    \/ \E f \in FileIds, newPath \in Paths : VaultRename(f, newPath)
    \/ TimerTick
    \/ onCacheChange
    \/ onVaultDelete
    \/ onVaultRename
    \/ onVaultRenameSaved
    \/ updateTrackedFiles
    \/ updateTrackedFilesSaved
    \/ \E indexed \in BOOLEAN : dailyNoteCreated(indexed)
    \/ dailyNoteRead
    \/ settingsSaved
    \/ noteModified
    \/ noteIndexed

Spec == Init /\ [][Next]_vars

\* The loads the fair behaviours start from: a render that writes, one that
\* finds no heading to write under on the day after the last one, and one
\* that has to create the daily note (with the backup still to make).
FairScenarios ==
    Loads({ConfigTags}, {<<"a.md">>}, {Today}, {TRUE}, {NoteWith(Text1)})
    \cup Loads({ConfigTags}, {<<"F/b.md", "a.md">>}, {Yesterday}, {TRUE},
               {NoteWith(Text5)})
    \cup Loads({ConfigFolders}, {<<>>}, {Today}, {FALSE}, {NoNote})

InitFair ==
    /\ Init
    /\ [cfg |-> cfg, trackedFiles |-> settings.trackedFiles,
        lastTrackedDate |-> settings.lastTrackedDate,
        hasBeenBackedUp |-> settings.hasBeenBackedUp, note |-> note] \in FairScenarios

\* a step of the plugin or of a host call it has made
Internal ==
    \/ onCacheChange \/ onVaultDelete \/ onVaultRename \/ onVaultRenameSaved
    \/ updateTrackedFiles \/ updateTrackedFilesSaved
    \/ \E indexed \in BOOLEAN : dailyNoteCreated(indexed)
    \/ dailyNoteRead \/ settingsSaved \/ noteModified \/ noteIndexed

\* The event loop does not stop while a continuation is ready or a host call
\* (saveData, createDailyNote, vault.read, vault.modify, the indexing of the
\* metadata cache) has yet to return.  Nothing obliges the vault to send a
\* notification or the timer to tick.
FairSpec == InitFair /\ [][Next]_vars /\ WF_vars(Internal)


\* ------------------------------------------------------------ the claims

\* the invocation this step starts, for each of the three notification handlers
StartsCacheChange == Len(qCache') < Len(qCache)
StartsDelete == Len(qDelete') < Len(qDelete)
StartsRename == Len(qRename') < Len(qRename)

\* C1: at no time are two of the handlers active at once: an invocation that
\* arrives while another handler is suspended at an await does not start
\* before that handler has completed.  (updateTrackedFiles is only ever
\* called from inside a handler, which stays suspended on it: the two count
\* as one activity here.)
C1_MutualExclusion ==
    Cardinality({h \in Handlers \ {"updateTrackedFiles"} : pc[h] # "idle"}) <= 1

\* The render of this step: a vault.modify is issued with the text Written,
\* computed from the text just read and from headings that are those of
\* that text.
Renders == Len(writes') = Len(writes) + 1
Written == writes'[Len(writes')]
ReadIsCurrent == upd.headings = HeadingsOf(note.content)

\* the line (from 1) of the configured heading in a text, and of the heading
\* after it (0 when there is none)
HeadingAt(text) ==
    LET i == matchedHeading(HeadingsOf(text))
    IN  IF i = 0 THEN 0 ELSE HeadingsOf(text)[i].line + 1

NextHeadingAt(text) ==
    LET i == matchedHeading(HeadingsOf(text))
    IN  IF i = 0 \/ i + 1 > Len(HeadingsOf(text)) THEN 0
        ELSE HeadingsOf(text)[i + 1].line + 1

\* C2: a render of a text whose configured heading H is followed by N lines
\* and a next heading H2 writes [the lines up to and including H] + [the
\* rendered entries, in tracked order] + [the lines from H2 on].
C2_SplicerRoundTrip ==
    [][(Renders /\ ReadIsCurrent /\ NextHeadingAt(note.content) # 0) =>
         Written = SubSeq(note.content, 1, HeadingAt(note.content))
                   \o renderedEntries(settings.trackedFiles)
                   \o SubSeq(note.content, NextHeadingAt(note.content),
                             Len(note.content))]_vars

\* the frame of a text carried over to another: the lines up to and
\* including the configured heading, and the lines from the next heading on
FrameKept(old, new) ==
    LET h == HeadingAt(old)
        tail == IF NextHeadingAt(old) = 0 THEN <<>>
                ELSE SubSeq(old, NextHeadingAt(old), Len(old))
    IN  /\ Len(new) >= h + Len(tail)
        /\ SubSeq(new, 1, h) = SubSeq(old, 1, h)
        /\ SubSeq(new, Len(new) - Len(tail) + 1, Len(new)) = tail

\* C3: whenever the text of the daily note changes, every line up to and
\* including the configured heading and every line from the next heading on
\* is what it was before.
C3_FrameOfWrite ==
    [][(note.exists /\ note'.content # note.content
        /\ HeadingAt(note.content) # 0) => FrameKept(note.content, note'.content)]_vars

\* the file of the invocation onCacheChange starts in this step is trackable
HeadTrackable ==
    /\ ~cacheContainsIgnoredTag(cfg, Head(qCache).tags)
    /\ ~pathIsExcluded(cfg, files[Head(qCache).file].path)
    /\ ~noteTitleContainsIgnoredText(cfg, BasenameChars(files[Head(qCache).file].path))

\* C4: when onCacheChange runs for a trackable file f, not the daily note,
\* while lastTrackedDate is not today, then lastTrackedDate becomes today and
\* the tracked set becomes exactly [f].
C4_RolloverOnChange ==
    [][(StartsCacheChange /\ Head(qCache).file # DailyFile
        /\ settings.lastTrackedDate # Today /\ HeadTrackable
        /\ FileExists(files[Head(qCache).file].path)) =>
         /\ settings'.lastTrackedDate = Today
         /\ settings'.trackedFiles = <<files[Head(qCache).file].path>>]_vars

\* C5: no handler changes the tracked set of an earlier day: after a step
\* that changed trackedFiles, lastTrackedDate is today.
C5_NoUpdateOfOldDay ==
    [][settings'.trackedFiles # settings.trackedFiles =>
         settings'.lastTrackedDate = Today]_vars


\* a list without the entries equal to one of the given paths
Without(list, paths) == SelectSeq(list, LAMBDA x : x \notin paths)

C7_NoDuplicates ==
    \A i, j \in 1..Len(settings.trackedFiles) :
        settings.trackedFiles[i] = settings.trackedFiles[j] => i = j

\* C8: when onVaultRename(file, oldPath) runs with oldPath tracked, then
\* oldPath is absent afterwards, the new path is the last element, the other
\* entries keep their order and the size is unchanged; with oldPath not
\* tracked nothing changes, and nothing is persisted or rendered.
C8_RenamePostcondition ==
    [][StartsRename =>
         LET oldPath == Head(qRename).oldPath
             newPath == files[Head(qRename).file].path
             before == settings.trackedFiles
             after == settings'.trackedFiles
         IN  IF ArrayIncludes(before, oldPath)
             THEN /\ ~ArrayIncludes(after, oldPath)
                  /\ after # <<>> /\ after[Len(after)] = newPath
                  /\ Len(after) = Len(before)
                  /\ Without(SubSeq(after, 1, Len(after) - 1), {oldPath})
                        = Without(before, {oldPath})
             ELSE /\ after = before
                  /\ UNCHANGED <<saves, qUpdate, pc, writes>>]_vars

ManagedRegion(text) ==
    SubSeq(text, HeadingAt(text) + 1,
           IF NextHeadingAt(text) = 0 THEN Len(text) ELSE NextHeadingAt(text) - 1)

\* C10: a render with an empty tracked set leaves the managed region empty.
C10_EmptySetClearsRegion ==
    [][(Renders /\ ReadIsCurrent /\ settings.trackedFiles = <<>>) =>
         ManagedRegion(Written) = <<>>]_vars

\* The render cannot be made: the configured heading is empty; the daily note
\* is there and the metadata cache has no headings for it, or none with the
\* configured text; or there is no daily note and none is to be created.
RenderFails ==
    \/ cfg.heading = ""
    \/ /\ note.exists
       /\ \/ ~cache.ready
          \/ \A k \in 1..Len(cache.headings) : cache.headings[k].heading # cfg.heading
    \/ ~note.exists /\ ~cfg.automaticallyCreateDailyNote

\* C11: while the render cannot be made, no step issues a vault.modify of the
\* daily note, and the text of a daily note that exists stays what it was.
C11_NoWriteOnFailure ==
    [][RenderFails => /\ writes' = writes
                      /\ note.exists => note' = note]_vars

\* C11 happens: the daily note has no heading "Modified"; a change was
\* tracked and its render has run to its end, and nothing was written.
C11_Witness ==
    /\ cfg = ConfigTags /\ note = NoteWith(Text5)
    /\ settings.trackedFiles = <<"a.md", "F/b.md">>
    /\ saved = settings /\ saves = <<>> /\ qUpdate = <<>>
    /\ \A h \in Handlers : pc[h] = "idle"

\* the step in which the running render, having read the note, comes to its end
RenderEnds == pc["updateTrackedFiles"] = "await read" /\ pc'["updateTrackedFiles"] = "idle"

\* C12: a render that finds the configured heading while a tracked path
\* resolves to no file still writes the daily note, with the entry of every
\* tracked path that does resolve in the text it writes.
C12_StaleEntrySkipped ==
    [][(/\ RenderEnds /\ cfg.heading # ""
        /\ \E k \in 1..Len(upd.headings) : upd.headings[k].heading = cfg.heading
        /\ \E k \in 1..Len(settings.trackedFiles) : ~FileExists(settings.trackedFiles[k])) =>
         /\ Renders
         /\ \A k \in 1..Len(settings.trackedFiles) :
               FileExists(settings.trackedFiles[k]) =>
                  \E l \in 1..Len(Written) :
                      Written[l] = getFormattedOutput(settings.trackedFiles[k])]_vars

\* the invocation of updateTrackedFiles this step starts
StartsUpdate == Len(qUpdate') < Len(qUpdate)

\* the step in which the running render takes the headings of the daily note
\* from the metadata cache and asks for its text
ReadsNote == pc["updateTrackedFiles"] # "await read" /\ pc'["updateTrackedFiles"] = "await read"

\* C13: an invocation of updateTrackedFiles starts, and reads the daily note,
\* only when no vault.modify and no saveData of an earlier invocation is
\* still in flight.
C13_NoOverlappingWrite ==
    [][(StartsUpdate \/ ReadsNote) =>
         /\ writes = <<>>
         /\ \A k \in 1..Len(saves) : saves[k].waiter # "none"]_vars

\* a notification handler completes in this step: it returns at once, or the
\* call it was suspended on has settled and nothing is left for it to run
HandlerCompletes ==
    \/ StartsCacheChange /\ pc'["onCacheChange"] = "idle"
    \/ StartsDelete /\ pc'["onVaultDelete"] = "idle"
    \/ StartsRename /\ pc'["onVaultRename"] = "idle"
    \/ \E h \in Handlers \ {"updateTrackedFiles"} : pc[h] # "idle" /\ pc'[h] = "idle"

\* no handler is running or waiting, and no saveData is in flight
Quiescent ==
    /\ \A h \in Handlers : pc[h] = "idle"
    /\ qCache = <<>> /\ qDelete = <<>> /\ qRename = <<>> /\ qUpdate = <<>>
    /\ saves = <<>>

\* C14: when a handler completes and leaves nothing running and no saveData
\* in flight, the settings record the host has persisted is the in-memory
\* one; so it is after onCacheChange has run for the daily note, whatever it
\* did to the settings.
C14_PersistedOnCompletion ==
    [][(HandlerCompletes /\ Quiescent') => saved' = settings']_vars

\* C15: with a writeInterval of "0" onload schedules no periodic timer and
\* displays no notice of an invalid interval.
C15_ZeroDisablesTimer ==
    cfg.writeInterval = <<"0">> => ~interval.registered /\ ~interval.notice

\* the step is a tick of the timer: the host has delivered something that
\* is none of the three notifications
Ticks ==
    /\ nev' = nev + 1
    /\ qCache' = qCache /\ qDelete' = qDelete /\ qRename' = qRename

\* C16: every tick of the registered interval invokes updateTrackedFiles.
C16_TickRenders ==
    [][Ticks => Len(qUpdate') = Len(qUpdate) + 1]_vars

\* C17: vault.copy is called at most once, only while hasBeenBackedUp is
\* false and the daily note was found, and no step sets hasBeenBackedUp
\* back to false.
C17_OneTimeBackup ==
    [][/\ backups' # backups =>
            /\ ~settings.hasBeenBackedUp /\ note.exists
            /\ backups = 0 /\ backups' = 1
       /\ settings.hasBeenBackedUp => settings'.hasBeenBackedUp]_vars

\* C17 happens: the daily note was copied by an earlier render, and a later
\* invocation of updateTrackedFiles is running.
C17_Witness ==
    /\ backups = 1 /\ settings.hasBeenBackedUp
    /\ pc["updateTrackedFiles"] = "await save"

\* C18: with tags, excludedFolders and ignoredNameContains all empty, a
\* same-day change notification for a file other than the daily note appends
\* the file when it is not tracked and leaves the list alone when it is.
C18_NoFiltersTracksAll ==
    [][(/\ StartsCacheChange /\ Head(qCache).file # DailyFile
        /\ settings.lastTrackedDate = Today
        /\ cfg.tags = <<>> /\ cfg.excludedFolders = <<>>
        /\ cfg.ignoredNameContains = <<>>) =>
         LET path == files[Head(qCache).file].path
         IN  IF ArrayIncludes(settings.trackedFiles, path)
             THEN settings'.trackedFiles = settings.trackedFiles
             ELSE settings'.trackedFiles = Append(settings.trackedFiles, path)]_vars

\* the invocation of onCacheChange this step starts is for the daily note
DailyNoteChange == StartsCacheChange /\ Head(qCache).file = DailyFile

\* no handler is running or waiting to run
NoPendingHandler ==
    /\ \A h \in Handlers : pc[h] = "idle"
    /\ qCache = <<>> /\ qDelete = <<>> /\ qRename = <<>> /\ qUpdate = <<>>

\* C19 as stated: a change notification for the daily note leaves the tracked
\* list as it is and starts no render, and in the end no handler is pending.
C19_NoSelfTriggeredLoop ==
    /\ [][DailyNoteChange => /\ settings'.trackedFiles = settings.trackedFiles
                             /\ qUpdate' = qUpdate]_vars
    /\ <>[]NoPendingHandler

\* C19, amended: a change notification for the daily note adds no entry to
\* the tracked list and removes none, apart from the rollover that empties
\* the list when lastTrackedDate is not today; it starts no render, and in
\* the end no handler is pending.
C19_NoSelfTriggeredLoopButRollover ==
    /\ [][DailyNoteChange =>
            /\ settings'.trackedFiles =
                   IF settings.lastTrackedDate = Today THEN settings.trackedFiles
                   ELSE <<>>
            /\ qUpdate' = qUpdate /\ pc' = pc]_vars
    /\ <>[]NoPendingHandler

\* C19 happens: the render of a.md has reached the daily note, the metadata
\* cache has indexed the new text and notified the change, onCacheChange has
\* run for it, and nothing is pending.
C19_Witness ==
    /\ NoPendingHandler /\ writes = <<>> /\ ~cache.dirty
    /\ note.content = <<HeadingLine("Modified"), <<"- ", "[[a]]">>, <<"old line">>,
                        HeadingLine("Next")>>

\* C20: whenever an invocation of a handler is running or waits on the chain
\* of its wrapper, a state follows in which every handler has come to its
\* end and no invocation waits: each of them was started and has completed.
C20_Progress == (~NoPendingHandler) ~> NoPendingHandler

\* C20 happens: both tracked files were deleted, and nothing else happened;
\* the render of the first delete has failed (the daily note has no heading
\* "Modified") and has settled, and the onVaultDelete of the second delete
\* is suspended on its own, nested, render, which has read the settings.
C20_Witness ==
    /\ cfg = ConfigTags /\ note = NoteWith(Text5)
    /\ nev = 2 /\ \A f \in FileIds : ~files[f].alive
    /\ settings.trackedFiles = <<>>
    /\ pc["onVaultDelete"] = "await update" /\ upd.caller = "onVaultDelete"
    /\ pc["updateTrackedFiles"] = "await read" /\ qUpdate = <<>>

====
